---------------------------- MODULE Spec2Model ----------------------------
(***************************************************************************)
(* Report pipeline of backend/main.py: extract_and_merge_data,             *)
(* preview_report and generate_report; the template and settings store;    *)
(* and several report requests served at once.                             *)
(*                                                                         *)
(* Text is a sequence of Unicode code points, as a Python str is, so that  *)
(* substring tests, strip() and the ordering of labels are computed and    *)
(* not assumed.  Column names and messages are only ever compared for      *)
(* equality; they are written as ASCII strings (Erisim for Erişim,         *)
(* "Re.Es. (TRY)" for "Re.Eş. (TRY)", and so on).                          *)
(***************************************************************************)
EXTENDS Integers, Sequences, FiniteSets, TLC

VARIABLES
    pc,          \* position of the request: "request", "done", "normalize", "normalized"
    files,       \* the uploaded batch, List[UploadFile]
    merged_df,   \* first value returned by extract_and_merge_data
    summary,     \* second value returned by extract_and_merge_data
    response,    \* what the endpoint hands back to the caller
    val,         \* argument of map_mecra
    group,       \* value returned by map_mecra
    writer,      \* message of the exception the Excel writer raises, "" when it raises none
    templates,       \* the global 'templates', line 78
    templates_file,  \* TEMPLATES_FILE on disk
    settings,        \* the global 'settings', line 79
    settings_file,   \* SETTINGS_FILE on disk
    call,        \* the request to the store that was answered last
    requests     \* the report requests in flight, when several are served at once

\* the template and settings store
store == <<templates, templates_file, settings, settings_file>>

vars == <<pc, files, merged_df, summary, response, val, group, writer, store, call, requests>>

---------------------------------------------------------------------------
(* Bounds of the model. *)

MaxFiles == 2      \* files of a batch
MaxRows == 2       \* data rows of a file that is uploaded with others
MaxSheetRows == 4  \* data rows of a file that is uploaded alone
MaxFragments == 3  \* pieces a raw channel text is built from

---------------------------------------------------------------------------
(* Text. *)

ElektronikBasin == <<69, 108, 101, 107, 116, 114, 111, 110, 105, 107, 32, 66, 97, 115, 305, 110>>  \* "Elektronik Basın"
GorselBasin == <<71, 246, 114, 115, 101, 108, 32, 66, 97, 115, 305, 110>>   \* "Görsel Basın"
YaziliBasin == <<89, 97, 122, 305, 108, 305, 32, 66, 97, 115, 305, 110>>    \* "Yazılı Basın"
Internet == <<304, 110, 116, 101, 114, 110, 101, 116>>                      \* "İnternet"
TV == <<84, 86>>                                                            \* "TV"
Diger == <<68, 105, 287, 101, 114>>                                         \* "Diğer"
Radyo == <<82, 97, 100, 121, 111>>                                          \* "Radyo"
Ajans == <<65, 106, 97, 110, 115>>                                          \* "Ajans"
Basin == <<66, 97, 115, 305, 110>>                                          \* "Basın"
Blank == <<32>>                                                             \* " "

\* characters str.strip() removes (the ones below U+0100)
Whitespace == {9, 10, 11, 12, 13, 28, 29, 30, 31, 32, 133, 160}

\* sub in s
Contains(s, sub) ==
    \E i \in 1..(Len(s) - Len(sub) + 1) : SubSeq(s, i, i + Len(sub) - 1) = sub

\* s.strip()
Strip(s) ==
    LET keep == {i \in 1..Len(s) : s[i] \notin Whitespace}
    IN  IF keep = {} THEN <<>>
        ELSE LET lo == CHOOSE i \in keep : \A j \in keep : i <= j
                 hi == CHOOSE i \in keep : \A j \in keep : j <= i
             IN  SubSeq(s, lo, hi)

\* a < b for two str values: code point by code point, a proper prefix first
StrLess(a, b) ==
    \E i \in 1..(Len(b)) :
        /\ i <= Len(a) + 1
        /\ \A j \in 1..(i - 1) : a[j] = b[j]
        /\ (i = Len(a) + 1 \/ a[i] < b[i])

---------------------------------------------------------------------------
(* Cells of a table: a missing value (NaN), a text or a number. *)

NaN == [t |-> "nan"]
Str(s) == [t |-> "str", s |-> s]
Num(n) == [t |-> "num", n |-> n]

\* pd.isna(val)
isna(v) == v.t = "nan"

---------------------------------------------------------------------------
(* Tables.  An uploaded file is a blob that pd.read_excel either parses    *)
(* (ok) into columns and rows, or rejects.  A row of a file maps each      *)
(* column of that file to a cell.  A row of a DataFrame also remembers     *)
(* the file and the row it was read from (src), which the program itself   *)
(* does not keep: it lets the properties speak about where a record came   *)
(* from.                                                                   *)

\* pd.read_excel(io.BytesIO(content)) for the i-th file of the batch, when it parses
read_excel(file, i) ==
    [columns |-> file.columns,
     rows |-> [r \in 1..Len(file.rows) |-> [src |-> <<i, r>>, cells |-> file.rows[r]]]]

\* the loop over files: all_dfs, starting at file i
RECURSIVE read_files_break(_, _)
read_files_break(fs, i) ==
    IF i > Len(fs) THEN <<>>
    ELSE IF fs[i].ok THEN <<read_excel(fs[i], i)>> \o read_files_break(fs, i + 1)
         ELSE <<>>

RECURSIVE read_files(_, _)
read_files(fs, i) ==
    IF i > Len(fs) THEN <<>>
    ELSE IF fs[i].ok THEN <<read_excel(fs[i], i)>> \o read_files(fs, i + 1)
         ELSE read_files(fs, i + 1)

\* a row re-indexed on the union of the columns, NaN where its file had no such column
reindex(row, cols) ==
    [src |-> row.src,
     cells |-> [c \in cols |-> IF c \in DOMAIN row.cells THEN row.cells[c] ELSE NaN]]

RECURSIVE concat_rows_same_columns(_, _, _)
concat_rows_same_columns(dfs, cols, i) ==
    IF i > Len(dfs) THEN <<>>
    ELSE (IF dfs[i].columns = cols
          THEN [r \in 1..Len(dfs[i].rows) |-> reindex(dfs[i].rows[r], cols)]
          ELSE <<>>)
             \o concat_rows_same_columns(dfs, cols, i + 1)

RECURSIVE concat_rows(_, _, _)
concat_rows(dfs, cols, i) ==
    IF i > Len(dfs) THEN <<>>
    ELSE [r \in 1..Len(dfs[i].rows) |-> reindex(dfs[i].rows[r], cols)]
             \o concat_rows(dfs, cols, i + 1)

\* dtype of the 'Mecra' column of the concatenation is float64 (and not object):
\* every frame that has the column has rows, and all of them are NaN
mecra_is_float(dfs) ==
    LET with == {i \in 1..Len(dfs) : "Mecra" \in dfs[i].columns}
    IN  /\ with /= {}
        /\ \A i \in with :
              /\ Len(dfs[i].rows) > 0
              /\ \A r \in 1..Len(dfs[i].rows) : isna(dfs[i].rows[r].cells["Mecra"])

\* pd.concat(all_dfs, ignore_index=True)
concat_last_row_first(dfs) ==
    LET cols == UNION {dfs[i].columns : i \in 1..Len(dfs)}
        rows == concat_rows(dfs, cols, 1)
    IN  [columns |-> cols,
         rows |-> [r \in 1..Len(rows) |-> rows[Len(rows) + 1 - r]],
         mecra_float |-> mecra_is_float(dfs)]

concat(dfs) ==
    LET cols == UNION {dfs[i].columns : i \in 1..Len(dfs)}
    IN  [columns |-> cols,
         rows |-> concat_rows(dfs, cols, 1),
         mecra_float |-> mecra_is_float(dfs)]

\* df.dropna(subset=[col])
dropna(df, col) ==
    [df EXCEPT !.rows = SelectSeq(df.rows, LAMBDA row : ~isna(row.cells[col]))]

\* lines 643-644
filter_nan_mecra_none(df) == df

filter_nan_mecra(df) ==
    IF "Mecra" \in df.columns THEN dropna(df, "Mecra") ELSE df

\* str(val) of a text cell
str(v) == v.s

\* map_mecra, lines 647-653
map_mecra_swapped(v) ==
    IF isna(v) THEN Diger
    ELSE LET val_str == Strip(str(v))
         IN  IF Contains(val_str, YaziliBasin) THEN YaziliBasin
             ELSE IF Contains(val_str, GorselBasin) THEN TV
             ELSE IF Contains(val_str, ElektronikBasin) THEN Internet
             ELSE val_str

map_mecra(v) ==
    IF isna(v) THEN Diger
    ELSE LET val_str == Strip(str(v))
         IN  IF Contains(val_str, ElektronikBasin) THEN Internet
             ELSE IF Contains(val_str, GorselBasin) THEN TV
             ELSE IF Contains(val_str, YaziliBasin) THEN YaziliBasin
             ELSE val_str

\* df[col] = values, one value per row
assign(df, col, values) ==
    [df EXCEPT
        !.columns = @ \cup {col},
        !.rows = [r \in 1..Len(df.rows) |->
                     [df.rows[r] EXCEPT
                         !.cells = [c \in df.columns \cup {col} |->
                                       IF c = col THEN values[r] ELSE df.rows[r].cells[c]]]]]

\* lines 655-658
add_mecra_grup(df) ==
    IF "Mecra" \in df.columns
    THEN assign(df, "Mecra_Grup",
                [r \in 1..Len(df.rows) |-> Str(map_mecra(df.rows[r].cells["Mecra"]))])
    ELSE assign(df, "Mecra_Grup", [r \in 1..Len(df.rows) |-> Str(Diger)])

\* the decimal number a text of digits denotes
RECURSIVE parse_digits(_)
parse_digits(s) ==
    IF s = <<>> THEN 0
    ELSE 10 * parse_digits(SubSeq(s, 1, Len(s) - 1)) + (s[Len(s)] - 48)

\* pd.to_numeric(cell, errors='coerce'): numbers stay, digit texts are parsed,
\* anything else becomes NaN
to_numeric(v) ==
    IF v.t = "num" THEN v
    ELSE IF v.t = "str" /\ Strip(v.s) /= <<>> /\ \A i \in 1..Len(Strip(v.s)) : Strip(v.s)[i] \in 48..57
         THEN Num(parse_digits(Strip(v.s)))
         ELSE NaN

\* .fillna(x)
fillna(v, x) == IF isna(v) THEN Num(x) ELSE v

\* lines 661-664, for one of the two metric columns
coerce_column_dropna(df, col) ==
    IF col \in df.columns
    THEN LET kept == SelectSeq(df.rows, LAMBDA row : ~isna(to_numeric(row.cells[col])))
         IN  assign([df EXCEPT !.rows = kept], col,
                    [r \in 1..Len(kept) |-> to_numeric(kept[r].cells[col])])
    ELSE df

coerce_column(df, col) ==
    IF col \in df.columns
    THEN assign(df, col,
                [r \in 1..Len(df.rows) |-> fillna(to_numeric(df.rows[r].cells[col]), 0)])
    ELSE df

---------------------------------------------------------------------------
(* The summary: one row per group, lines 666-681. *)

Toplam == <<84, 111, 112, 108, 97, 109>>   \* "Toplam"

\* the group label of a row of the merged table
grup(row) == row.cells["Mecra_Grup"].s

\* the keys of groupby('Mecra_Grup')
group_keys(df) == {grup(df.rows[r]) : r \in 1..Len(df.rows)}

\* groupby sorts its keys: the labels in increasing order
RECURSIVE sorted_keys(_)
sorted_keys(K) ==
    IF K = {} THEN <<>>
    ELSE LET m == CHOOSE k \in K : \A o \in K \ {k} : StrLess(k, o)
         IN  <<m>> \o sorted_keys(K \ {m})

\* groupby('Mecra_Grup').size() for one key
group_size_of_frame(df, k) == Len(df.rows)

group_size(df, k) == Cardinality({r \in 1..Len(df.rows) : grup(df.rows[r]) = k})

\* groupby('Mecra_Grup')[col].sum() for one key, over the rows from r on
RECURSIVE group_sum_all(_, _, _, _)
group_sum_all(df, col, k, r) ==
    IF r > Len(df.rows) THEN 0
    ELSE df.rows[r].cells[col].n + group_sum_all(df, col, k, r + 1)

RECURSIVE group_sum(_, _, _, _)
group_sum(df, col, k, r) ==
    IF r > Len(df.rows) THEN 0
    ELSE (IF grup(df.rows[r]) = k THEN df.rows[r].cells[col].n ELSE 0)
             + group_sum(df, col, k, r + 1)

\* the columns of the summary, in order
summary_columns_count_only(df) == <<"Mecra", "Haber Adedi">>

summary_columns(df) ==
    <<"Mecra", "Haber Adedi">>
        \o (IF "Erisim" \in df.columns THEN <<"Erisim">> ELSE <<>>)
        \o (IF "Re.Es. (TRY)" \in df.columns THEN <<"Reklam Esdegeri(TL)">> ELSE <<>>)

Range(seq) == {seq[i] : i \in 1..Len(seq)}

\* lines 667-676: size and the sums, merged on the group label
build_summary(df) ==
    LET keys == sorted_keys(group_keys(df))
        cols == summary_columns(df)
    IN  [columns |-> cols,
         rows |-> [i \in 1..Len(keys) |->
                     [c \in Range(cols) |->
                         CASE c = "Mecra" -> Str(keys[i])
                           [] c = "Haber Adedi" -> Num(group_size(df, keys[i]))
                           [] c = "Erisim" -> Num(group_sum(df, "Erisim", keys[i], 1))
                           [] c = "Reklam Esdegeri(TL)" ->
                                  Num(group_sum(df, "Re.Es. (TRY)", keys[i], 1))]],
         mecra_float |-> df.mecra_float]

\* the default of fillna(99), line 680
OtherOrder == 99

\* summary['Mecra'].map(order).fillna(99)
sort_order_flat(label) == OtherOrder

sort_order(label) ==
    CASE label = YaziliBasin -> 0
      [] label = Internet -> 1
      [] label = TV -> 2
      [] OTHER -> OtherOrder

\* sort_values('sort_order') with the default, unstable, kind: every arrangement
\* of the rows I in which sort_order never decreases
sort_values_as_grouped(rows, I) == {rows}

RECURSIVE sort_values(_, _)
sort_values(rows, I) ==
    IF I = {} THEN {<<>>}
    ELSE LET first == {i \in I : \A j \in I :
                          sort_order(rows[i]["Mecra"].s) <= sort_order(rows[j]["Mecra"].s)}
         IN  UNION {{<<rows[i]>> \o rest : rest \in sort_values(rows, I \ {i})} : i \in first}

\* what extract_and_merge_data does: raise, or return (merged_df, summary)
EmptyFrame == [columns |-> {}, rows |-> <<>>, mecra_float |-> FALSE]
EmptySummary == [columns |-> <<>>, rows |-> <<>>, mecra_float |-> FALSE]

HTTPException(status_code, detail) ==
    [raised |-> TRUE, status_code |-> status_code, detail |-> detail,
     merged_df |-> EmptyFrame, summary |-> EmptySummary]

\* 'if not all_dfs', line 636
nothing_parsed_never(all_dfs) == FALSE

nothing_parsed(all_dfs) == all_dfs = <<>>

\* lines 636-683: what follows the loop over the files
merge_and_summarize(all_dfs) ==
    IF nothing_parsed(all_dfs)
    THEN {HTTPException(400, "Gecerli bir Excel dosyasi okunamadi")}
    ELSE LET merged == coerce_column(
                           coerce_column(
                               add_mecra_grup(filter_nan_mecra(concat(all_dfs))),
                               "Erisim"),
                           "Re.Es. (TRY)")
             grouped == build_summary(merged)
         IN  {[raised |-> FALSE, status_code |-> 200, detail |-> "",
               merged_df |-> merged,
               summary |-> [grouped EXCEPT !.rows = sorted]] :
                 sorted \in sort_values(grouped.rows, DOMAIN grouped.rows)}

extract_and_merge_data(fs) ==
    IF fs = <<>> THEN {HTTPException(400, "Dosya yuklenmedi")}
    ELSE merge_and_summarize(read_files(fs, 1))

---------------------------------------------------------------------------
(* The two endpoints. *)

\* summary.select_dtypes(include=['number']).columns.tolist()
numeric_cols(sm) ==
    SelectSeq(sm.columns, LAMBDA c : c /= "Mecra" \/ sm.mecra_float)

\* summary[col].sum(), over the rows from i on
RECURSIVE column_sum(_, _, _)
column_sum(rows, col, i) ==
    IF i > Len(rows) THEN 0
    ELSE (IF rows[i][col].t = "num" THEN rows[i][col].n ELSE 0) + column_sum(rows, col, i + 1)

\* totals_dict / totals_row: 'Toplam', then one entry per numeric column
totals_of(sm) ==
    [c \in {"Mecra"} \cup Range(numeric_cols(sm)) |->
        IF c \in Range(numeric_cols(sm)) THEN Num(column_sum(sm.rows, c, 1)) ELSE Str(Toplam)]

\* one column of the summary as a list
tolist_reversed(sm, col) == [i \in 1..Len(sm.rows) |-> sm.rows[Len(sm.rows) + 1 - i][col]]

tolist(sm, col) == [i \in 1..Len(sm.rows) |-> sm.rows[i][col]]

\* the body preview_report returns, lines 690-718
preview_body_with_totals(sm) ==
    [success |-> TRUE,
     data |-> [summary_table |-> sm.rows \o <<totals_of(sm)>>,
               totals |-> totals_of(sm),
               chart_data |->
                   [labels |-> tolist(sm, "Mecra"),
                    haber_adedi |-> tolist(sm, "Haber Adedi"),
                    erisim |-> IF "Erisim" \in Range(sm.columns)
                               THEN tolist(sm, "Erisim") ELSE <<>>,
                    reklam |-> IF "Reklam Esdegeri(TL)" \in Range(sm.columns)
                               THEN tolist(sm, "Reklam Esdegeri(TL)") ELSE <<>>]]]

preview_body(sm) ==
    [success |-> TRUE,
     data |-> [summary_table |-> sm.rows,
               totals |-> totals_of(sm),
               chart_data |->
                   [labels |-> tolist(sm, "Mecra"),
                    haber_adedi |-> tolist(sm, "Haber Adedi"),
                    erisim |-> IF "Erisim" \in Range(sm.columns)
                               THEN tolist(sm, "Erisim") ELSE <<>>,
                    reklam |-> IF "Reklam Esdegeri(TL)" \in Range(sm.columns)
                               THEN tolist(sm, "Reklam Esdegeri(TL)") ELSE <<>>]]]

\* position of a column, counted from 0 (col_map)
col_index(cols, c) == (CHOOSE i \in 1..Len(cols) : cols[i] = c) - 1

\* add_pie_chart, lines 777-787
add_pie_chart(col_idx, title, pos_cell, data_rows, chart_style) ==
    [name |-> title,
     categories |-> <<1, 0, data_rows, 0>>,
     values |-> <<1, col_idx, data_rows, col_idx>>,
     style |-> chart_style,
     pos |-> pos_cell]

\* the workbook generate_report writes, lines 730-798
workbook_of(merged, sm, layout_type) ==
    LET with_totals == sm.rows \o <<totals_of(sm)>>
        data_rows == Len(with_totals) - 1
        chart_style == IF layout_type = "modern" THEN 2 ELSE 10
    IN  [all_data |-> merged,
         summary_sheet |-> [header |-> sm.columns, rows |-> with_totals],
         header_bg |-> IF layout_type = "modern" THEN "#4A90E2" ELSE "#D7E4BC",
         header_font |-> IF layout_type = "modern" THEN "white" ELSE "black",
         charts |->
             <<add_pie_chart(1, "HABER ADEDI DAGILIM YUZDESI", "A10", data_rows, chart_style)>>
             \o (IF "Erisim" \in Range(sm.columns)
                 THEN <<add_pie_chart(col_index(sm.columns, "Erisim"),
                                      "ERISIM DAGILIM YUZDESI", "E10", data_rows, chart_style)>>
                 ELSE <<>>)
             \o (IF "Reklam Esdegeri(TL)" \in Range(sm.columns)
                 THEN <<add_pie_chart(col_index(sm.columns, "Reklam Esdegeri(TL)"),
                                      "REKLAM ESDEGERI (TL) DAGILIM YUZDESI", "L10",
                                      data_rows, chart_style)>>
                 ELSE <<>>)]

\* an HTTPException that leaves the endpoint ('except HTTPException: raise')
\* becomes an error response
error_response_caught(endpoint, out) ==
    IF endpoint = "preview_report"
    THEN [endpoint |-> endpoint, kind |-> "json", status_code |-> 200,
          body |-> [success |-> FALSE, error |-> out.detail]]
    ELSE [endpoint |-> endpoint, kind |-> "http_error",
          status_code |-> out.status_code, detail |-> out.detail]

error_response(endpoint, out) ==
    [endpoint |-> endpoint, kind |-> "http_error",
     status_code |-> out.status_code, detail |-> out.detail]

\* the messages of the exceptions the Excel writer raises: none, or that the
\* sheet does not fit
WriterOk == ""
WriterErrors == {"This sheet is too large!"}

\* 'except Exception as e' of generate_report, lines 808-809: the exception
\* becomes an HTTPException with the status 500 that carries its message
report_error_as_invalid_input(e) == HTTPException(400, e)

report_error(e) == HTTPException(500, "Rapor olusturulurken hata: " \o e)

\* what preview_report answers once extract_and_merge_data is through
preview_response(out) ==
    IF out.raised
    THEN error_response("preview_report", out)
    ELSE [endpoint |-> "preview_report", kind |-> "json",
          status_code |-> 200, body |-> preview_body(out.summary)]

\* what generate_report answers once extract_and_merge_data is through, with
\* the message w of the exception the Excel writer raises
generate_response(out, layout_type, w) ==
    IF out.raised
    THEN error_response("generate_report", out)
    ELSE IF w /= WriterOk
    THEN error_response("generate_report", report_error(w))
    ELSE [endpoint |-> "generate_report", kind |-> "xlsx",
          status_code |-> 200, layout_type |-> layout_type,
          workbook |-> workbook_of(out.merged_df, out.summary, layout_type)]

NoResponse == [endpoint |-> "", kind |-> "none"]

---------------------------------------------------------------------------
(* The requests the model sends. *)

X == <<120>>   \* "x", a text that is no number

LayoutTypes == {"standard", "modern"}

Corrupt == [ok |-> FALSE, columns |-> {}, rows |-> <<>>]

\* the sequences over S of length at most n
SeqsUpTo(S, n) == UNION {[1..k -> S] : k \in 0..n}

\* the spreadsheets with the columns cols, cells from cells[c], at most n rows
Sheets(cols, cells, n) ==
    LET all == UNION {cells[c] : c \in cols}
        rowset == {row \in [cols -> all] : \A c \in cols : row[c] \in cells[c]}
    IN  {[ok |-> TRUE, columns |-> cols, rows |-> rs] : rs \in SeqsUpTo(rowset, n)}

\* one file alone, its rows differing in their channel texts
ChannelCells ==
    [c \in {"Mecra"} |->
        {Str(YaziliBasin), Str(ElektronikBasin), Str(GorselBasin), Str(TV),
         Str(Radyo), Str(Ajans)}]

ChannelBatches == {<<f>> : f \in Sheets({"Mecra"}, ChannelCells, MaxSheetRows)}

\* several files: unreadable ones, ones with a 'Mecra' column, whose cells
\* may be empty, and ones without
MergeCells ==
    [c \in {"Mecra", "Erisim"} |->
        IF c = "Mecra" THEN {NaN, Str(Radyo)} ELSE {Num(1)}]

MergeFiles ==
    {Corrupt} \cup Sheets({"Mecra"}, MergeCells, MaxRows)
              \cup Sheets({"Erisim"}, MergeCells, MaxRows)

MergeBatches == SeqsUpTo(MergeFiles, MaxFiles)

\* a file with both metric columns, alone or next to a file without 'Erisim',
\* and a file without 'Erisim' alone
MetricCells ==
    [c \in {"Mecra", "Erisim", "Re.Es. (TRY)"} |->
        CASE c = "Mecra" -> {Str(Radyo), Str(Ajans)}
          [] c = "Erisim" -> {Num(1), Str(X)}
          [] c = "Re.Es. (TRY)" -> {Num(2)}]

MetricBatches ==
    LET full == Sheets({"Mecra", "Erisim", "Re.Es. (TRY)"}, MetricCells, MaxRows)
        part == Sheets({"Mecra", "Re.Es. (TRY)"}, MetricCells, MaxRows)
    IN  {<<f>> : f \in full} \cup {<<g>> : g \in part}
            \cup {<<f, g>> : f \in full, g \in part}
            \cup {<<g, f>> : f \in full, g \in part}

\* two files whose rows differ in their channel texts, one of them with a
\* column the other does not have
OrderCells ==
    [c \in {"Mecra", "Baslik"} |->
        IF c = "Mecra" THEN {Str(Radyo), Str(Ajans)} ELSE {Str(X)}]

OrderBatches ==
    LET wide == Sheets({"Mecra", "Baslik"}, OrderCells, MaxRows)
        narrow == Sheets({"Mecra"}, OrderCells, MaxRows)
    IN  {<<f, g>> : f \in wide, g \in narrow} \cup {<<g, f>> : f \in wide, g \in narrow}

Batches == ChannelBatches \cup MergeBatches \cup MetricBatches \cup OrderBatches

---------------------------------------------------------------------------
(* The template and settings store, as the application leaves it at start. *)

\* a file of DATA_DIR: absent, or holding what json.dump wrote
Missing == [exists |-> FALSE, content |-> <<>>]
Written(content) == [exists |-> TRUE, content |-> content]

\* the empty dict
EmptyDict == [k \in {} |-> k]

\* KVCacheSettings(), models.py
DefaultSettings ==
    [kv_cache_type |-> "q8_0", num_parallel |-> 4, default_keep_alive |-> "10m"]

\* load_templates() and load_settings(), called by lifespan
load_templates(file) == IF file.exists THEN file.content ELSE EmptyDict
load_settings(file) == IF file.exists THEN file.content ELSE DefaultSettings

\* the store after lifespan has run on a DATA_DIR without files
InitStore ==
    /\ templates_file = Missing
    /\ settings_file = Missing
    /\ templates = load_templates(templates_file)
    /\ settings = load_settings(settings_file)

\* no request to the store was answered yet
NoCall == [endpoint |-> ""]

---------------------------------------------------------------------------
(* The state machine: a request is pending, then answered. *)

Init ==
    /\ pc = "request"
    /\ files \in Batches
    /\ merged_df = EmptyFrame
    /\ summary = EmptySummary
    /\ response = NoResponse
    /\ val = NaN
    /\ group = <<>>
    /\ writer = WriterOk
    /\ InitStore
    /\ call = NoCall
    /\ requests = <<>>

\* POST /preview-report, lines 685-722
preview_report ==
    /\ pc = "request"
    /\ \E out \in extract_and_merge_data(files) :
          /\ merged_df' = out.merged_df
          /\ summary' = out.summary
          /\ response' = preview_response(out)
    /\ pc' = "done"
    /\ UNCHANGED <<files, val, group, writer, store, call, requests>>

\* POST /generate-report, lines 724-809
generate_report ==
    /\ pc = "request"
    /\ \E layout_type \in LayoutTypes, out \in extract_and_merge_data(files) :
          /\ merged_df' = out.merged_df
          /\ summary' = out.summary
          /\ response' = generate_response(out, layout_type, writer)
    /\ pc' = "done"
    /\ UNCHANGED <<files, val, group, writer, store, call, requests>>

Next == preview_report \/ generate_report

Spec == Init /\ [][Next]_vars

\* the same requests, served while the Excel writer may raise
InitFaulty ==
    /\ pc = "request"
    /\ files \in Batches
    /\ merged_df = EmptyFrame
    /\ summary = EmptySummary
    /\ response = NoResponse
    /\ val = NaN
    /\ group = <<>>
    /\ writer \in {WriterOk} \cup WriterErrors
    /\ InitStore
    /\ call = NoCall
    /\ requests = <<>>

SpecFaulty == InitFaulty /\ [][Next]_vars

---------------------------------------------------------------------------
(* The template store and the settings, lines 134-196. *)

\* template.id of a body that supplies no id
None == ""

\* the values of str(uuid.uuid4())[:8]
Uuids == {"1b9d6bcd", "bbfd4b2d"}

\* the ids a caller puts into the path: ids that were handed out, and one
\* that never is
PathIds == Uuids \cup {"deadbeef"}

\* the bodies of create_template and update_template: PromptTemplate, of
\* which the id and the name are told apart
TemplateBodies == [id : {None, "1b9d6bcd"}, name : {"A", "B"}]

\* the bodies of update_settings: KVCacheSettings
SettingsBodies ==
    [kv_cache_type : {"q4_0", "f16"}, num_parallel : {4}, default_keep_alive : {"10m"}]

\* template.id = template_id
with_id_if_none(template, template_id) ==
    IF template.id = None THEN [template EXCEPT !.id = template_id] ELSE template

with_id(template, template_id) == [template EXCEPT !.id = template_id]

\* templates[template_id] = template
put(dict, key, value) ==
    [k \in DOMAIN dict \cup {key} |-> IF k = key THEN value ELSE dict[k]]

\* del templates[template_id]
del(dict, key) == [k \in DOMAIN dict \ {key} |-> dict[k]]

\* save_templates and save_settings: the file holds the dump of the argument
save_templates(dict) == Written(dict)
save_settings(value) == Written(value)

TemplateNotFound == HTTPException(404, "Template not found")

\* POST /templates, lines 151-158
create_template ==
    \E template \in TemplateBodies, template_id \in Uuids :
        /\ call' = [endpoint |-> "create_template", template |-> template]
        /\ templates' = put(templates, template_id, with_id(template, template_id))
        /\ templates_file' = save_templates(templates')
        /\ response' = [endpoint |-> "create_template", kind |-> "json",
                        status_code |-> 200, body |-> with_id(template, template_id)]
        /\ UNCHANGED <<pc, files, merged_df, summary, val, group, writer,
                       settings, settings_file, requests>>

\* PUT /templates/{template_id}, lines 161-169
update_template ==
    \E template_id \in PathIds, template \in TemplateBodies :
        /\ call' = [endpoint |-> "update_template", template_id |-> template_id,
                    template |-> template]
        /\ IF template_id \notin DOMAIN templates
           THEN /\ response' = error_response("update_template", TemplateNotFound)
                /\ UNCHANGED <<templates, templates_file>>
           ELSE /\ templates' = put(templates, template_id, with_id(template, template_id))
                /\ templates_file' = save_templates(templates')
                /\ response' = [endpoint |-> "update_template", kind |-> "json",
                                status_code |-> 200,
                                body |-> with_id(template, template_id)]
        /\ UNCHANGED <<pc, files, merged_df, summary, val, group, writer,
                       settings, settings_file, requests>>

\* DELETE /templates/{template_id}, lines 172-179
delete_template ==
    \E template_id \in PathIds :
        /\ call' = [endpoint |-> "delete_template", template_id |-> template_id]
        /\ IF template_id \notin DOMAIN templates
           THEN /\ response' = error_response("delete_template", TemplateNotFound)
                /\ UNCHANGED <<templates, templates_file>>
           ELSE /\ templates' = del(templates, template_id)
                /\ templates_file' = save_templates(templates')
                /\ response' = [endpoint |-> "delete_template", kind |-> "json",
                                status_code |-> 200, body |-> [deleted |-> template_id]]
        /\ UNCHANGED <<pc, files, merged_df, summary, val, group, writer,
                       settings, settings_file, requests>>

\* PUT /settings, lines 190-196
update_settings ==
    \E new_settings \in SettingsBodies :
        /\ call' = [endpoint |-> "update_settings", new_settings |-> new_settings]
        /\ settings' = new_settings
        /\ settings_file' = save_settings(settings')
        /\ response' = [endpoint |-> "update_settings", kind |-> "json",
                        status_code |-> 200, body |-> settings']
        /\ UNCHANGED <<pc, files, merged_df, summary, val, group, writer,
                       templates, templates_file, requests>>

\* the application serves the store on its own
InitServing ==
    /\ pc = "serving"
    /\ files = <<>>
    /\ merged_df = EmptyFrame
    /\ summary = EmptySummary
    /\ response = NoResponse
    /\ val = NaN
    /\ group = <<>>
    /\ writer = WriterOk
    /\ InitStore
    /\ call = NoCall
    /\ requests = <<>>

NextStore == create_template \/ update_template \/ delete_template \/ update_settings

SpecStore == InitServing /\ [][NextStore]_vars

---------------------------------------------------------------------------
(* Several report requests served at once.  The handlers are coroutines: a  *)
(* handler runs until it awaits file.read(), and another handler, of the    *)
(* reports or of the store, may run before it goes on.                      *)

\* the callers whose report requests are in flight
Callers == {1, 2}

\* the batches they upload
SheetA == [ok |-> TRUE, columns |-> {"Mecra"}, rows |-> <<[Mecra |-> Str(Radyo)]>>]
SheetB == [ok |-> TRUE, columns |-> {"Mecra"}, rows |-> <<[Mecra |-> Str(TV)]>>]
ConcurrentBatches == {<<>>, <<SheetA, SheetB>>, <<Corrupt, SheetB>>}

\* a request that has not been handled yet; all_dfs and the place in the loop
\* over the files are locals of the call
NewRequest(endpoint, fs, layout_type) ==
    [endpoint |-> endpoint, files |-> fs, layout_type |-> layout_type,
     pc |-> "request", file |-> 0, all_dfs |-> <<>>, response |-> NoResponse]

\* the list all_dfs a call appends to, line 623
all_dfs_of_first_call(reqs, p) == reqs[1].all_dfs

all_dfs_of(reqs, p) == reqs[p].all_dfs

\* the response of a call whose loop over the files is through
respond(req, all_dfs, w) ==
    {IF req.endpoint = "preview_report" THEN preview_response(out)
     ELSE generate_response(out, req.layout_type, w) :
        out \in merge_and_summarize(all_dfs)}

\* the handler of caller p starts: it raises when there is no file, or else
\* runs up to the first 'await file.read()'
start_request(p) ==
    /\ requests[p].pc = "request"
    /\ LET req == requests[p]
       IN  requests' =
               [requests EXCEPT ![p] =
                   IF req.files = <<>>
                   THEN [req EXCEPT !.pc = "done",
                                    !.response = error_response(req.endpoint,
                                                     HTTPException(400, "Dosya yuklenmedi"))]
                   ELSE [req EXCEPT !.pc = "reading", !.file = 1]]
    /\ UNCHANGED <<pc, files, merged_df, summary, response, val, group, writer, store, call>>

\* the handler of caller p goes on after 'await file.read()': it parses the
\* file, and runs up to the next await or, after the last file, to its end
resume_request(p) ==
    /\ requests[p].pc = "reading"
    /\ LET req == requests[p]
           i == req.file
           all_dfs == all_dfs_of(requests, p)
                          \o (IF req.files[i].ok THEN <<read_excel(req.files[i], i)>> ELSE <<>>)
       IN  IF i < Len(req.files)
           THEN requests' = [requests EXCEPT ![p].file = i + 1, ![p].all_dfs = all_dfs]
           ELSE \E r \in respond(req, all_dfs, writer) :
                    requests' = [requests EXCEPT ![p].pc = "done", ![p].all_dfs = all_dfs,
                                                 ![p].response = r]
    /\ UNCHANGED <<pc, files, merged_df, summary, response, val, group, writer, store, call>>

\* caller 1 asks for a preview, caller 2 for a workbook
InitConcurrent ==
    /\ pc = "serving"
    /\ files = <<>>
    /\ merged_df = EmptyFrame
    /\ summary = EmptySummary
    /\ response = NoResponse
    /\ val = NaN
    /\ group = <<>>
    /\ writer = WriterOk
    /\ InitStore
    /\ call = NoCall
    /\ \E f1 \in ConcurrentBatches, f2 \in ConcurrentBatches, layout_type \in LayoutTypes :
          requests = <<NewRequest("preview_report", f1, "standard"),
                       NewRequest("generate_report", f2, layout_type)>>

NextConcurrent ==
    \/ \E p \in Callers : start_request(p)
    \/ \E p \in Callers : resume_request(p)
    \/ create_template
    \/ update_template
    \/ delete_template
    \/ update_settings

SpecConcurrent == InitConcurrent /\ [][NextConcurrent]_vars

---------------------------------------------------------------------------
(* map_mecra on its own: a raw channel value is pending, then normalized. *)

YaziliBasinLower == <<121, 97, 122, 305, 108, 305, 32, 98, 97, 115, 305, 110>>  \* "yazılı basın"

Fragments ==
    {Blank, Basin, ElektronikBasin, GorselBasin, YaziliBasin, YaziliBasinLower, Radyo}

RECURSIVE Join(_)
Join(parts) == IF parts = <<>> THEN <<>> ELSE Head(parts) \o Join(Tail(parts))

\* the raw texts: one to MaxFragments fragments, one after the other
RawTexts == {Join(parts) : parts \in SeqsUpTo(Fragments, MaxFragments) \ {<<>>}}

InitNormalizer ==
    /\ pc = "normalize"
    /\ val \in {NaN} \cup {Str(t) : t \in RawTexts}
    /\ group = <<>>
    /\ files = <<>>
    /\ merged_df = EmptyFrame
    /\ summary = EmptySummary
    /\ response = NoResponse
    /\ writer = WriterOk
    /\ InitStore
    /\ call = NoCall
    /\ requests = <<>>

\* merged_df['Mecra'].apply(map_mecra), for one value
normalize ==
    /\ pc = "normalize"
    /\ group' = map_mecra(val)
    /\ pc' = "normalized"
    /\ UNCHANGED <<val, files, merged_df, summary, response, writer, store, call, requests>>

NextNormalizer == normalize

SpecNormalizer == InitNormalizer /\ [][NextNormalizer]_vars

---------------------------------------------------------------------------
(* Vocabulary of the properties. *)

\* the request was answered with a result, not with an error
Succeeded == pc = "done" /\ response.kind \in {"json", "xlsx"}

\* the files of the batch that parse
Parsed == {i \in 1..Len(files) : files[i].ok}

\* the rows read: <<file, row>> for every row of every parsed file
RowsRead == UNION {{<<i, r>> : r \in 1..Len(files[i].rows)} : i \in Parsed}

\* the raw channel value of a row as uploaded: NaN when the cell is empty or
\* the file has no 'Mecra' column
RawMecra(src) ==
    LET f == files[src[1]]
    IN  IF "Mecra" \in f.columns THEN f.rows[src[2]]["Mecra"] ELSE NaN

\* the rows the returned dataset retains
Retained == {merged_df.rows[r].src : r \in 1..Len(merged_df.rows)}

\* some parsed file has a 'Mecra' column
SomeMecraColumn == \E i \in Parsed : "Mecra" \in files[i].columns

\* the group label the returned dataset gives to a retained row
GroupOf(src) ==
    LET r == CHOOSE q \in 1..Len(merged_df.rows) : merged_df.rows[q].src = src
    IN  grup(merged_df.rows[r])

---------------------------------------------------------------------------
(* C1 *)

\* C1, as stated: in every returned dataset no record whose raw channel value
\* is empty or missing is retained, also when no file has a 'Mecra' column.
C1_NoMissingChannelRetained ==
    Succeeded => \A src \in Retained : ~isna(RawMecra(src))

\* C1, amended: when some parsed file has a 'Mecra' column, no record whose raw
\* channel value is empty or missing is retained (it is dropped, never kept
\* under 'Diğer'); when no parsed file has a 'Mecra' column, no record is
\* dropped and every record is kept under the group 'Diğer'.
C1_MissingChannelDropped ==
    Succeeded =>
        /\ SomeMecraColumn => \A src \in Retained : ~isna(RawMecra(src))
        /\ ~SomeMecraColumn =>
              /\ Retained = RowsRead
              /\ \A src \in Retained : GroupOf(src) = Diger

\* a batch where one file has a 'Mecra' column with an empty cell and another
\* file has no such column, and some record is retained
C1_Witness ==
    /\ Succeeded
    /\ Retained /= {}
    /\ \E a \in RowsRead, b \in RowsRead :
          /\ "Mecra" \in files[a[1]].columns /\ isna(RawMecra(a))
          /\ "Mecra" \notin files[b[1]].columns
          /\ a \notin Retained /\ b \notin Retained

---------------------------------------------------------------------------
(* C2 *)

\* C2: when the batch is empty or no file of it parses, both endpoints answer
\* with an HTTP 400 error carrying the message of the case, and hand back no
\* summary, chart data or workbook.
C2_InvalidInput ==
    (pc = "done" /\ Parsed = {}) =>
        /\ response.kind = "http_error"
        /\ response.status_code = 400
        /\ response.detail = IF files = <<>> THEN "Dosya yuklenmedi"
                             ELSE "Gecerli bir Excel dosyasi okunamadi"
        /\ DOMAIN response \cap {"body", "workbook"} = {}
        /\ merged_df.rows = <<>> /\ summary.rows = <<>>

\* generate_report answered a batch of two or more files, none of which parses
C2_Witness ==
    /\ pc = "done"
    /\ Len(files) >= 2 /\ Parsed = {}
    /\ response.endpoint = "generate_report"
    /\ response.kind = "http_error"

---------------------------------------------------------------------------
(* C3 *)

\* C3: when at least one file of the batch parses, the request succeeds and
\* the dataset holds the rows of the parsed files and only those (but for the
\* rows dropped for a missing channel), wherever the failed files stand in the
\* batch.
C3_FailedFileSkipped ==
    (pc = "done" /\ Parsed /= {}) =>
        /\ Succeeded
        /\ response.status_code = 200
        /\ Retained \subseteq RowsRead
        /\ \A src \in RowsRead :
              src \in Retained \/ (SomeMecraColumn /\ isna(RawMecra(src)))

\* a batch whose first file fails and whose second file parses, with all the
\* rows of the second file retained
C3_Witness ==
    /\ Succeeded
    /\ Len(files) >= 2 /\ ~files[1].ok /\ files[2].ok
    /\ Len(files[2].rows) >= 2
    /\ Retained = {<<2, r>> : r \in 1..Len(files[2].rows)}

---------------------------------------------------------------------------
(* C4 *)

\* the sum of a sequence of numbers
RECURSIVE SeqSum(_)
SeqSum(ns) == IF ns = <<>> THEN 0 ELSE Head(ns) + SeqSum(Tail(ns))

\* the label and the count of a summary row
LabelOf(row) == row["Mecra"].s
CountOf(row) == row["Haber Adedi"].n

\* C4: the summary is a partition of the dataset: one row per distinct group
\* label of the retained records, labels compared as texts; the count of a row
\* is the number of records of its group and is never 0; the counts add up to
\* the number of retained records.
C4_Partition ==
    Succeeded =>
        LET n == Len(summary.rows)
        IN  /\ \A i, j \in 1..n : i /= j => LabelOf(summary.rows[i]) /= LabelOf(summary.rows[j])
            /\ {LabelOf(summary.rows[i]) : i \in 1..n} = {GroupOf(src) : src \in Retained}
            /\ \A i \in 1..n :
                  /\ CountOf(summary.rows[i]) =
                         Cardinality({src \in Retained : GroupOf(src) = LabelOf(summary.rows[i])})
                  /\ CountOf(summary.rows[i]) > 0
            /\ SeqSum([i \in 1..n |-> CountOf(summary.rows[i])]) = Len(merged_df.rows)

\* a raw value 'TV' and a raw value 'Görsel Basın' share the row 'TV', next to
\* another group
C4_Witness ==
    /\ Succeeded
    /\ Len(summary.rows) >= 2
    /\ \E a \in Retained, b \in Retained :
          /\ RawMecra(a) = Str(TV) /\ RawMecra(b) = Str(GorselBasin)
    /\ \E i \in 1..Len(summary.rows) :
          LabelOf(summary.rows[i]) = TV /\ CountOf(summary.rows[i]) >= 2

---------------------------------------------------------------------------
(* C5 *)

\* the rows read whose raw channel value is missing
MissingChannel == {src \in RowsRead : isna(RawMecra(src))}

\* C5, as stated: the dataset has as many rows as the parsed files together,
\* minus the rows whose channel value is missing.
C5_RowCountMinusMissing ==
    Succeeded =>
        Len(merged_df.rows) = Cardinality(RowsRead) - Cardinality(MissingChannel)

\* C5, amended: the dataset has as many rows as the parsed files together,
\* minus the rows whose channel value is missing when some parsed file has a
\* 'Mecra' column; when no parsed file has one, no row is dropped.  No row
\* occurs twice, also when the files have different columns.
C5_RowCount ==
    Succeeded =>
        /\ Cardinality(Retained) = Len(merged_df.rows)
        /\ Len(merged_df.rows) =
               Cardinality(RowsRead)
                   - (IF SomeMecraColumn THEN Cardinality(MissingChannel) ELSE 0)

\* two parsed files with different columns, a row dropped and a row kept
C5_Witness ==
    /\ Succeeded
    /\ \E i \in Parsed, j \in Parsed :
          /\ files[i].columns /= files[j].columns
          /\ files[i].rows /= <<>> /\ files[j].rows /= <<>>
    /\ SomeMecraColumn
    /\ 0 < Len(merged_df.rows) /\ Len(merged_df.rows) < Cardinality(RowsRead)

---------------------------------------------------------------------------
(* C6 *)

\* the totals handed back: the 'totals' entry of the preview, the last row of
\* the summary sheet of the workbook
TotalsReturned ==
    IF response.kind = "json" THEN response.body.data.totals
    ELSE response.workbook.summary_sheet.rows[Len(response.workbook.summary_sheet.rows)]

\* the sum of a column over the summary rows, and over the whole dataset
SummarySum(col) == SeqSum([i \in 1..Len(summary.rows) |-> summary.rows[i][col].n])
DatasetSum(col) == SeqSum([r \in 1..Len(merged_df.rows) |-> merged_df.rows[r].cells[col].n])

\* C6: each numeric field of the totals is the sum of that field over the
\* summary rows, which is the sum over the whole dataset: the number of
\* retained records, the sum of the coerced Reach column, the sum of the
\* coerced AdEquivalency column.
C6_Totals ==
    Succeeded =>
        /\ TotalsReturned["Haber Adedi"].n = SummarySum("Haber Adedi")
        /\ TotalsReturned["Haber Adedi"].n = Len(merged_df.rows)
        /\ "Erisim" \in merged_df.columns =>
              /\ TotalsReturned["Erisim"].n = SummarySum("Erisim")
              /\ TotalsReturned["Erisim"].n = DatasetSum("Erisim")
        /\ "Re.Es. (TRY)" \in merged_df.columns =>
              /\ TotalsReturned["Reklam Esdegeri(TL)"].n = SummarySum("Reklam Esdegeri(TL)")
              /\ TotalsReturned["Reklam Esdegeri(TL)"].n = DatasetSum("Re.Es. (TRY)")

\* two groups, a Reach sum above 0 and one Reach cell that is no number
C6_Witness ==
    /\ Succeeded
    /\ Len(summary.rows) >= 2
    /\ {"Erisim", "Re.Es. (TRY)"} \subseteq merged_df.columns
    /\ \E i \in 1..Len(summary.rows) : summary.rows[i]["Erisim"].n > 0
    /\ \E src \in Retained :
          /\ "Erisim" \in files[src[1]].columns
          /\ files[src[1]].rows[src[2]]["Erisim"] = Str(X)
    /\ TotalsReturned["Erisim"].n >= 1
    /\ TotalsReturned["Reklam Esdegeri(TL)"].n >= 4

---------------------------------------------------------------------------
(* C7 *)

\* the summary rows handed back, without the totals
SummaryReturned ==
    IF response.kind = "json" THEN response.body.data.summary_table
    ELSE SubSeq(response.workbook.summary_sheet.rows, 1,
                Len(response.workbook.summary_sheet.rows) - 1)

\* the place of a label in the display order
DisplayRank(label) ==
    IF label = YaziliBasin THEN 1
    ELSE IF label = Internet THEN 2
    ELSE IF label = TV THEN 3
    ELSE 4

\* C7: 'Yazılı Basın' comes before 'İnternet', which comes before 'TV', and
\* each of them comes before every row with another label.
C7_DisplayOrder ==
    Succeeded =>
        \A i, j \in 1..Len(SummaryReturned) :
            DisplayRank(LabelOf(SummaryReturned[i])) < DisplayRank(LabelOf(SummaryReturned[j]))
                => i < j

\* all three reserved groups and another one are present
C7_Witness ==
    /\ Succeeded
    /\ Len(SummaryReturned) = 4
    /\ LabelOf(SummaryReturned[1]) = YaziliBasin
    /\ LabelOf(SummaryReturned[2]) = Internet
    /\ LabelOf(SummaryReturned[3]) = TV
    /\ LabelOf(SummaryReturned[4]) = Radyo

---------------------------------------------------------------------------
(* C8 *)

\* g is raw without its leading and trailing whitespace
IsTrimOf(g, raw) ==
    \/ g = <<>> /\ \A k \in 1..Len(raw) : raw[k] \in Whitespace
    \/ \E i, j \in 1..Len(raw) :
          /\ i <= j /\ g = SubSeq(raw, i, j)
          /\ raw[i] \notin Whitespace /\ raw[j] \notin Whitespace
          /\ \A k \in 1..Len(raw) : (k < i \/ k > j) => raw[k] \in Whitespace

\* C8: map_mecra gives every value a label, by the first rule that applies:
\* 'İnternet' when the value contains 'Elektronik Basın'; else 'TV' when it
\* contains 'Görsel Basın'; else 'Yazılı Basın' when it contains 'Yazılı
\* Basın'; else the value itself, trimmed.
C8_Precedence ==
    (pc = "normalized" /\ ~isna(val)) =>
        LET raw == val.s
        IN  IF Contains(raw, ElektronikBasin) THEN group = Internet
            ELSE IF Contains(raw, GorselBasin) THEN group = TV
            ELSE IF Contains(raw, YaziliBasin) THEN group = YaziliBasin
            ELSE IsTrimOf(group, raw)

\* a value that contains all three reserved texts, 'Elektronik Basın' last
C8_Witness ==
    /\ pc = "normalized"
    /\ val = Str(YaziliBasin \o GorselBasin \o ElektronikBasin)
    /\ group = Internet

---------------------------------------------------------------------------
(* C9 *)

\* the number of groups of the dataset
NumGroups == Cardinality({GroupOf(src) : src \in Retained})

\* C9, as stated: the data returned by preview_report contains no totals row.
C9_NoTotalsInPreview ==
    (Succeeded /\ response.kind = "json") =>
        "totals" \notin DOMAIN response.body.data

\* C9, amended: the totals row is appended to the summary rows only in the
\* exported workbook, as the last row of the summary sheet; in the preview,
\* summary_table and chart_data hold the summary rows only, and the totals
\* come next to them, as the separate entry 'totals'.  The totals are labelled
\* 'Toplam' whenever the dataset is not empty.
C9_TotalsRow ==
    Succeeded =>
        /\ response.kind = "json" =>
              LET data == response.body.data
              IN  /\ data.summary_table = summary.rows
                  /\ Len(data.summary_table) = NumGroups
                  /\ Len(data.chart_data.labels) = NumGroups
                  /\ "totals" \in DOMAIN data
                  /\ NumGroups > 0 => data.totals["Mecra"] = Str(Toplam)
        /\ response.kind = "xlsx" =>
              LET sheet == response.workbook.summary_sheet.rows
              IN  /\ Len(sheet) = NumGroups + 1
                  /\ SubSeq(sheet, 1, NumGroups) = summary.rows
                  /\ NumGroups > 0 => sheet[Len(sheet)]["Mecra"] = Str(Toplam)

\* a preview of a dataset of two groups or more
C9_Witness ==
    /\ Succeeded
    /\ response.kind = "json"
    /\ NumGroups >= 2
    /\ response.body.data.totals["Haber Adedi"].n >= 2

---------------------------------------------------------------------------
(* C10 *)

\* C10, as stated: when no file is supplied or none parses, preview_report
\* returns a body of the shape {success: false, error: <message>}.
C10_PreviewFailureBody ==
    (pc = "done" /\ response.endpoint = "preview_report" /\ Parsed = {}) =>
        /\ response.kind = "json"
        /\ response.body.success = FALSE
        /\ "error" \in DOMAIN response.body

\* C10, amended: when no file is supplied or none parses, preview_report lets
\* the HTTPException through: the caller gets an HTTP 400 error whose detail
\* is the message, and no {success, error} body.
C10_PreviewFailureRaised ==
    (pc = "done" /\ response.endpoint = "preview_report" /\ Parsed = {}) =>
        /\ response.kind = "http_error"
        /\ response.status_code = 400
        /\ response.detail \in {"Dosya yuklenmedi", "Gecerli bir Excel dosyasi okunamadi"}
        /\ "body" \notin DOMAIN response

\* preview_report answered a batch of which no file parses
C10_Witness ==
    /\ pc = "done"
    /\ response.endpoint = "preview_report"
    /\ files /= <<>> /\ Parsed = {}

---------------------------------------------------------------------------
(* C11 *)

\* the rows of the returned summary whose label is none of the three reserved
\* ones: they all have the sort priority 99
Others == {i \in 1..Len(summary.rows) : DisplayRank(LabelOf(summary.rows[i])) = 4}

\* the place in the returned dataset where a group label is first seen
FirstSeen(label) ==
    CHOOSE r \in 1..Len(merged_df.rows) :
        /\ grup(merged_df.rows[r]) = label
        /\ \A q \in 1..(r - 1) : grup(merged_df.rows[q]) /= label

\* C11, as stated: the summary rows with equal sort priority stand in the
\* order in which their labels are first seen in the dataset.
C11_FirstSeenOrder ==
    Succeeded =>
        \A i, j \in Others :
            i < j => FirstSeen(LabelOf(summary.rows[i])) < FirstSeen(LabelOf(summary.rows[j]))

\* C11, amended: the summary rows with equal sort priority (all labels other
\* than 'Yazılı Basın', 'İnternet', 'TV') stand after every row of a reserved
\* label, one row per label seen in the dataset; their order among themselves
\* does not follow the order in which the labels are first seen (the grouping
\* step emits the labels in ascending text order, and the sort by priority
\* promises no order among equal priorities).
C11_OthersLast ==
    Succeeded =>
        /\ \A i \in Others, j \in 1..Len(summary.rows) : j \notin Others => j < i
        /\ \A i, j \in Others : i /= j => LabelOf(summary.rows[i]) /= LabelOf(summary.rows[j])
        /\ {LabelOf(summary.rows[i]) : i \in Others} =
               {GroupOf(src) : src \in Retained} \ {YaziliBasin, Internet, TV}

\* 'Radyo' is seen before 'Ajans' in the dataset and stands after it in the
\* summary, both after a reserved label that is seen last
C11_Witness ==
    /\ Succeeded
    /\ Len(summary.rows) = 3
    /\ LabelOf(summary.rows[2]) = Ajans /\ LabelOf(summary.rows[3]) = Radyo
    /\ FirstSeen(Radyo) < FirstSeen(Ajans)
    /\ FirstSeen(Ajans) < FirstSeen(LabelOf(summary.rows[1]))

---------------------------------------------------------------------------
(* C12 *)

\* the place of a label in the output of the grouping step, before the sort
GroupedAt(label) ==
    LET grouped == build_summary(merged_df).rows
    IN  CHOOSE k \in 1..Len(grouped) : LabelOf(grouped[k]) = label

\* C12: the sort is stable: two summary rows with equal priority stand after
\* the sort in the order in which the grouping step emitted them.
C12_StableSort ==
    Succeeded =>
        \A i, j \in 1..Len(summary.rows) :
            (/\ i < j
             /\ sort_order(LabelOf(summary.rows[i])) = sort_order(LabelOf(summary.rows[j])))
                => GroupedAt(LabelOf(summary.rows[i])) < GroupedAt(LabelOf(summary.rows[j]))

---------------------------------------------------------------------------
(* C13 *)

\* some parsed file has the column c
HasColumn(c) == \E i \in Parsed : c \in files[i].columns

\* the names of a metric: the column of the dataset, the column of the
\* summary, the array of chart_data
Metrics ==
    {[column |-> "Erisim", sum |-> "Erisim", chart |-> "erisim",
      title |-> "ERISIM DAGILIM YUZDESI"],
     [column |-> "Re.Es. (TRY)", sum |-> "Reklam Esdegeri(TL)", chart |-> "reklam",
      title |-> "REKLAM ESDEGERI (TL) DAGILIM YUZDESI"]}

\* C13: the summary rows carry the sum of a metric iff the dataset has the
\* column of the metric, which it has iff some parsed file has it; when the
\* column is absent, the summary rows and the totals have no field for the
\* metric and the array of the metric in chart_data is empty: the metric is
\* never filled with zeros.
C13_MetricPresence ==
    Succeeded =>
        \A m \in Metrics :
            /\ (m.column \in merged_df.columns) <=> HasColumn(m.column)
            /\ \A i \in 1..Len(SummaryReturned) :
                  (m.sum \in DOMAIN SummaryReturned[i]) <=> HasColumn(m.column)
            /\ (m.sum \in DOMAIN TotalsReturned) <=> HasColumn(m.column)
            /\ response.kind = "json" =>
                  LET chart == response.body.data.chart_data[m.chart]
                  IN  IF HasColumn(m.column)
                      THEN Len(chart) = Len(SummaryReturned)
                      ELSE chart = <<>>
            /\ response.kind = "xlsx" =>
                  /\ (m.sum \in Range(response.workbook.summary_sheet.header))
                         <=> HasColumn(m.column)
                  /\ (\E k \in DOMAIN response.workbook.charts :
                          response.workbook.charts[k].name = m.title)
                         <=> HasColumn(m.column)

\* a preview of a dataset with one metric column and not the other: the sums
\* of the present one are returned, 0 among them, the absent one is left out
C13_Witness ==
    /\ Succeeded
    /\ response.kind = "json"
    /\ HasColumn("Erisim") /\ ~HasColumn("Re.Es. (TRY)")
    /\ Len(SummaryReturned) >= 1
    /\ SummaryReturned[1]["Erisim"] = Num(0)
    /\ response.body.data.chart_data.erisim = <<Num(0)>>
    /\ response.body.data.chart_data.reklam = <<>>

---------------------------------------------------------------------------
(* C14 *)

\* C14: generate_report hands back either the whole workbook (the sheet of
\* all rows, the summary sheet closed by the totals row, the charts) or an
\* error without a workbook, never a part of the workbook.  An exception
\* raised while the workbook is built or written becomes an HTTP 500 error
\* that carries the message of the exception; invalid input is answered with
\* 400, never with 500.
C14_Atomic ==
    (pc = "done" /\ response.endpoint = "generate_report") =>
        \/ /\ response.kind = "xlsx"
           /\ response.status_code = 200
           /\ writer = WriterOk /\ Parsed /= {}
           /\ LET book == response.workbook
                  sheet == book.summary_sheet
              IN  /\ book.all_data = merged_df
                  /\ sheet.header = summary.columns
                  /\ Len(sheet.rows) = Len(summary.rows) + 1
                  /\ SubSeq(sheet.rows, 1, Len(summary.rows)) = summary.rows
                  /\ sheet.rows[Len(sheet.rows)]["Haber Adedi"] = Num(Len(merged_df.rows))
                  /\ Len(book.charts) = Len(summary.columns) - 1
        \/ /\ response.kind = "http_error"
           /\ DOMAIN response \cap {"workbook", "body"} = {}
           /\ IF Parsed = {}
              THEN response.status_code = 400
              ELSE /\ writer \in WriterErrors
                   /\ response.status_code = 500
                   /\ response.detail = "Rapor olusturulurken hata: " \o writer

\* the writer raises on a dataset of two rows or more: the answer is the 500
\* error, without a workbook
C14_Witness ==
    /\ pc = "done"
    /\ response.endpoint = "generate_report"
    /\ Len(merged_df.rows) >= 2
    /\ writer \in WriterErrors
    /\ response.kind = "http_error"
    /\ response.status_code = 500

---------------------------------------------------------------------------
(* C15 *)

\* the rows of the sheet a range [first_row, first_col, last_row, last_col]
\* refers to: the rows between its two corners, the corners included
range_rows(range) ==
    IF range[1] <= range[3] THEN range[1]..range[3] ELSE range[3]..range[1]

\* the columns of the summary sheet that hold a metric, counted from 0
MetricColumns ==
    LET header == response.workbook.summary_sheet.header
    IN  {k - 1 : k \in {q \in 1..Len(header) :
                          header[q] \in {"Haber Adedi", "Erisim", "Reklam Esdegeri(TL)"}}}

\* C15: the summary sheet has one pie chart per metric column present; in
\* the sheet, row 0 is the header, rows 1..n are the n summary rows and row
\* n + 1 is the totals row; the categories of every chart are the cells of
\* rows 1..n in column 0 and its values are the cells of the same rows in the
\* column of its metric, for every n.
C15_ChartRanges ==
    (Succeeded /\ response.kind = "xlsx") =>
        LET charts == response.workbook.charts
            n == Len(response.workbook.summary_sheet.rows) - 1
        IN  /\ Len(charts) = Cardinality(MetricColumns)
            /\ {charts[k].values[2] : k \in DOMAIN charts} = MetricColumns
            /\ \A k \in DOMAIN charts :
                  /\ charts[k].categories[2] = 0 /\ charts[k].categories[4] = 0
                  /\ charts[k].values[2] = charts[k].values[4]
                  /\ range_rows(charts[k].categories) = 1..n
                  /\ range_rows(charts[k].values) = 1..n

---------------------------------------------------------------------------
(* C16 *)

\* the responses a request may get when it is served alone: those of the
\* endpoint run in one piece on the files and the layout of the request
Alone(req) ==
    {IF req.endpoint = "preview_report" THEN preview_response(out)
     ELSE generate_response(out, req.layout_type, WriterOk) :
        out \in extract_and_merge_data(req.files)}

\* C16: whatever other requests, and whatever changes of the templates and
\* the settings, run between the steps of a report request, its response is
\* one it gets when it is served alone on its own files and layout.
C16_Independent ==
    \A p \in DOMAIN requests :
        requests[p].pc = "done" => requests[p].response \in Alone(requests[p])

\* both requests are answered, with different results, after each has read
\* two files and while the templates and the settings have been changed
C16_Witness ==
    /\ DOMAIN requests = Callers
    /\ \A p \in Callers : requests[p].pc = "done" /\ Len(requests[p].files) = 2
    /\ requests[1].files /= requests[2].files
    /\ requests[1].response.kind = "json" /\ requests[2].response.kind = "xlsx"
    /\ templates /= EmptyDict
    /\ settings /= DefaultSettings

---------------------------------------------------------------------------
(* C17 *)

\* C17: in the chart_data of the preview, 'haber_adedi' is as long as
\* 'labels', and 'erisim' and 'reklam' are each empty or as long as 'labels';
\* labels[i] is the label of the i-th row of the ordered summary, no label
\* comes twice, and the entries at i of the other arrays are the count and the
\* sums of that row.
C17_ChartDataAligned ==
    (Succeeded /\ response.kind = "json") =>
        LET chart == response.body.data.chart_data
            n == Len(chart.labels)
        IN  /\ n = Len(summary.rows)
            /\ Len(chart.haber_adedi) = n
            /\ Len(chart.erisim) \in {0, n}
            /\ Len(chart.reklam) \in {0, n}
            /\ \A i, j \in 1..n : i /= j => chart.labels[i] /= chart.labels[j]
            /\ \A i \in 1..n :
                  /\ chart.labels[i] = summary.rows[i]["Mecra"]
                  /\ chart.haber_adedi[i] = summary.rows[i]["Haber Adedi"]
                  /\ chart.haber_adedi[i].n =
                         Cardinality({src \in Retained : GroupOf(src) = chart.labels[i].s})
                  /\ chart.erisim /= <<>> => chart.erisim[i] = summary.rows[i]["Erisim"]
                  /\ chart.reklam /= <<>> =>
                         chart.reklam[i] = summary.rows[i]["Reklam Esdegeri(TL)"]
            /\ \A i, j \in 1..n :
                  i < j => DisplayRank(chart.labels[i].s) <= DisplayRank(chart.labels[j].s)

\* a preview with two labels whose counts, Reach sums and AdEquivalency sums
\* all differ
C17_Witness ==
    /\ Succeeded
    /\ response.kind = "json"
    /\ LET chart == response.body.data.chart_data
       IN  /\ Len(chart.labels) = 2
           /\ Len(chart.erisim) = 2 /\ Len(chart.reklam) = 2
           /\ chart.haber_adedi[1] /= chart.haber_adedi[2]
           /\ chart.erisim[1] /= chart.erisim[2]
           /\ chart.reklam[1] /= chart.reklam[2]

---------------------------------------------------------------------------
(* C18 *)

\* (file index, row index) order
SrcBefore(a, b) == a[1] < b[1] \/ (a[1] = b[1] /\ a[2] < b[2])

\* the columns of the parsed files, taken together
ColumnsRead == UNION {files[i].columns : i \in Parsed}

\* C18: the records of the dataset stand in (file index, row index) order;
\* the dataset has every column of every parsed file, and a record whose file
\* does not have a column holds a missing value there (0 once a metric column
\* is coerced), while a cell of a column that is not coerced is kept as read.
C18_MergeOrder ==
    Succeeded =>
        /\ \A q, r \in 1..Len(merged_df.rows) :
              q < r => SrcBefore(merged_df.rows[q].src, merged_df.rows[r].src)
        /\ merged_df.columns = ColumnsRead \cup {"Mecra_Grup"}
        /\ \A r \in 1..Len(merged_df.rows) :
              LET row == merged_df.rows[r]
                  file == files[row.src[1]]
              IN  \A c \in ColumnsRead :
                      IF c \in {"Erisim", "Re.Es. (TRY)"}
                      THEN c \notin file.columns => row.cells[c] = Num(0)
                      ELSE IF c \in file.columns
                           THEN row.cells[c] = file.rows[row.src[2]][c]
                           ELSE isna(row.cells[c])

\* two files with different columns, the one with the column 'Baslik' last;
\* the records of both are retained, those of the first file with a missing
\* value under 'Baslik'
C18_Witness ==
    /\ Succeeded
    /\ Len(files) = 2
    /\ "Baslik" \notin files[1].columns /\ "Baslik" \in files[2].columns
    /\ Len(merged_df.rows) = 4
    /\ isna(merged_df.rows[1].cells["Baslik"]) /\ isna(merged_df.rows[2].cells["Baslik"])
    /\ merged_df.rows[3].cells["Baslik"] = Str(X)
    /\ merged_df.rows[4].src = <<2, 2>>

---------------------------------------------------------------------------
(* C19 *)

\* the raw cell of a row under a metric column, as uploaded: NaN when the cell
\* is empty or the file has no such column
RawCell(src, c) ==
    LET f == files[src[1]]
    IN  IF c \in f.columns THEN f.rows[src[2]][c] ELSE NaN

\* a cell that is no number: an empty cell, or a text with a character that
\* is no digit
Unparseable(v) ==
    \/ isna(v)
    \/ v.t = "str" /\ \E k \in 1..Len(v.s) : v.s[k] \notin 48..57

\* what a raw cell adds to the sum of its group
Contribution(v) == IF v.t = "num" THEN v.n ELSE 0

\* the records read that the channel filter keeps, whatever their metric cells
KeptByChannel == IF SomeMecraColumn THEN RowsRead \ MissingChannel ELSE RowsRead

\* C19: when some parsed file has a metric column, every record of the
\* dataset holds a number under it: the number read, or 0 when the cell read
\* is no number, is empty or is padded; such a cell adds 0 to the sum of its
\* group; the request succeeds and the record is counted, as every record
\* that the channel filter keeps is.  A metric column that no parsed file has
\* is not in the dataset.
C19_Coercion ==
    (pc = "done" /\ Parsed /= {}) =>
        /\ Succeeded
        /\ Retained = KeptByChannel
        /\ \A m \in Metrics :
              IF HasColumn(m.column)
              THEN /\ \A r \in 1..Len(merged_df.rows) :
                         LET row == merged_df.rows[r]
                             raw == RawCell(row.src, m.column)
                         IN  /\ row.cells[m.column].t = "num"
                             /\ Unparseable(raw) => row.cells[m.column] = Num(0)
                             /\ raw.t = "num" => row.cells[m.column] = raw
                   /\ \A i \in 1..Len(summary.rows) :
                         /\ summary.rows[i][m.sum].n =
                                SeqSum([r \in 1..Len(merged_df.rows) |->
                                    IF grup(merged_df.rows[r]) = LabelOf(summary.rows[i])
                                    THEN Contribution(RawCell(merged_df.rows[r].src, m.column))
                                    ELSE 0])
                         /\ CountOf(summary.rows[i]) =
                                Cardinality({src \in KeptByChannel :
                                    GroupOf(src) = LabelOf(summary.rows[i])})
              ELSE m.column \notin merged_df.columns

\* a group with a record whose Reach cell is a text that is no number, a
\* record whose Reach cell is padded and a record whose Reach cell is 1: the
\* group counts all three and its sum is 1
C19_Witness ==
    /\ Succeeded
    /\ HasColumn("Erisim")
    /\ \E i \in 1..Len(summary.rows) :
          /\ CountOf(summary.rows[i]) >= 3
          /\ summary.rows[i]["Erisim"] = Num(1)
          /\ \E a \in Retained, b \in Retained, c \in Retained :
                /\ {GroupOf(a), GroupOf(b), GroupOf(c)} = {LabelOf(summary.rows[i])}
                /\ RawCell(a, "Erisim") = Str(X)
                /\ "Erisim" \notin files[b[1]].columns
                /\ RawCell(c, "Erisim") = Num(1)

---------------------------------------------------------------------------
(* C20 *)

\* every entry of the map holds a template whose id is its key
KeysAreIds == \A k \in DOMAIN templates : templates[k].id = k

\* C20: from the empty store on, after every call of create_template,
\* update_template and delete_template every entry of the map holds a template
\* whose id is its key: the template stored by a create or an update is the
\* body of the call with the id replaced by the key; and an update or delete
\* of an id that is not in the map is answered with 404 and changes neither
\* the map nor the file.
C20_TemplateStore ==
    [][/\ KeysAreIds'
       /\ (call'.endpoint \in {"create_template", "update_template"}
               /\ response'.status_code = 200) =>
              LET key == response'.body.id
              IN  /\ key \in DOMAIN templates'
                  /\ templates'[key] = [id |-> key, name |-> call'.template.name]
                  /\ templates_file' = Written(templates')
       /\ (call'.endpoint \in {"update_template", "delete_template"}
               /\ call'.template_id \notin DOMAIN templates) =>
              /\ response'.kind = "http_error"
              /\ response'.status_code = 404
              /\ templates' = templates
              /\ templates_file' = templates_file
      ]_vars

\* the map holds two templates and the file is written; an update with an id
\* that is not in the map, and a body that supplies an id of the map, was
\* answered with 404
C20_Witness ==
    /\ Cardinality(DOMAIN templates) = 2
    /\ templates_file = Written(templates)
    /\ call.endpoint = "update_template"
    /\ call.template_id \notin DOMAIN templates
    /\ call.template.id \in DOMAIN templates
    /\ response.kind = "http_error" /\ response.status_code = 404

=============================================================================
